---- MODULE Spec2Model ----
(***************************************************************************)
(* A model of src/bot.py (Telegram recon bot): the output limiter          *)
(* (_ellipsize), the message segmenter (send_long_markdown), the process   *)
(* runner (run_cmd) and the command handlers built on them.                *)
(*                                                                         *)
(* Three specifications share the module's variables:                      *)
(*   SpecLimit  _ellipsize applied to one (data, limit) input              *)
(*   SpecSeg    send_long_markdown applied to one text                     *)
(*   Spec       one request (/all or /subdomains) with its                 *)
(*              run_cmd calls, the child processes and the reply channel   *)
(***************************************************************************)
EXTENDS Integers, Sequences, FiniteSets, TLC

VARIABLES
    \* ---- _ellipsize ----
    lpc,        \* "idle" | "start" | "done"
    data,       \* the bytes handed to _ellipsize (a sequence of 0..255)
    limit,      \* its limit argument
    result,     \* what it returned
    \* ---- send_long_markdown ----
    spc,        \* "idle" | "start" | "sending" | "done"
    text,       \* the text handed to send_long_markdown (a sequence of characters)
    chunks,     \* the local list `chunks` once the line loop has run
    idx,        \* position of the final for loop (the next chunk to send)
    sent,       \* what was handed to update.message, in order
    \* ---- one request: handler, run_cmd, child processes ----
    req,        \* the update: [op, auth, arg]
    rpc,        \* handler position: "idle" | "start" | "step" | "done"
    step,       \* which run_cmd call of the handler is current (1, 2, ...)
    rcpc,       \* run_cmd position: "none" | "launch" | "await" | "returned" | "raised"
    ret,        \* the tuple run_cmd returned: [rc, out, err]
    procs,      \* the children spawned so far: [call, st], st one of
                \* "running" | "signalled" | "zombie" | "reaped"
    results,    \* log of the results returned by the run_cmd calls, in order
    env,        \* log of what create_subprocess_exec did in each call
    delivered   \* what the handler handed to update.message, in order

limvars == <<lpc, data, limit, result>>
segvars == <<spc, text, chunks, idx, sent>>
botvars == <<req, rpc, step, rcpc, ret, procs, results, env, delivered>>
vars == <<lpc, data, limit, result, spc, text, chunks, idx, sent,
          req, rpc, step, rcpc, ret, procs, results, env, delivered>>

----------------------------------------------------------------------------
(* Bounds of the model *)

\* longest input of _ellipsize, and largest limit tried
MaxDataLen == 42
MaxLimit == 41
\* number of terminated lines of a text handed to send_long_markdown
MaxLines == 6
\* bot.py:55 sets MAX_TG = 3900; the model scales the message size down so
\* that texts of a few lines go through every branch of the line loop
MAX_TG == 3

(* Program constants *)

\* bot.py:145, `if len(chunks) > 6`
MAX_CHUNKS == 6

----------------------------------------------------------------------------
(* Helpers *)

Max(a, b) == IF a >= b THEN a ELSE b
Min(a, b) == IF a <= b THEN a ELSE b

Rep(x, n) == [i \in 1..n |-> x]

\* Python's s[:k] for k >= 0
Take(s, k) == SubSeq(s, 1, Min(k, Len(s)))

EndsWith(s, suf) ==
    /\ Len(s) >= Len(suf)
    /\ SubSeq(s, Len(s) - Len(suf) + 1, Len(s)) = suf

RECURSIVE Join(_)
\* "".join(list)
Join(ss) == IF ss = <<>> THEN <<>> ELSE Head(ss) \o Join(Tail(ss))

----------------------------------------------------------------------------
(* _ellipsize, bot.py:91-95 *)

\* b"\n\n[Output truncated due to size limit]\n"
suffix ==
    <<10, 10, 91, 79, 117, 116, 112, 117, 116, 32, 116, 114, 117, 110, 99,
      97, 116, 101, 100, 32, 100, 117, 101, 32, 116, 111, 32, 115, 105, 122,
      101, 32, 108, 105, 109, 105, 116, 93, 10>>

_ellipsize(d, lim) ==
    IF Len(d) <= lim
    THEN d
    ELSE Take(d, Max(0, lim - Len(suffix))) \o suffix

Bytes == {65, 10}
DataSet == {Rep(b, n) : b \in Bytes, n \in 0..MaxDataLen}
LimitSet == 0..MaxLimit

LimInit ==
    /\ lpc = "start"
    /\ data \in DataSet
    /\ limit \in LimitSet
    /\ result = <<>>

LimIdle ==
    /\ lpc = "idle"
    /\ data = <<>>
    /\ limit = 0
    /\ result = <<>>

Ellipsize ==
    /\ lpc = "start"
    /\ result' = _ellipsize(data, limit)
    /\ lpc' = "done"
    /\ UNCHANGED <<data, limit>>

----------------------------------------------------------------------------
(* send_long_markdown, bot.py:118-156 *)

LF == "\n"
CR == "\r"
\* the characters of the model's texts that str.strip() removes
Whitespace == {" ", LF, CR}

RECURSIVE SplitAcc(_, _, _, _)
SplitAcc(t, i, line, acc) ==
    IF i > Len(t)
    THEN IF line = <<>> THEN acc ELSE Append(acc, line)
    ELSE IF t[i] = CR /\ i < Len(t) /\ t[i + 1] = LF
         THEN SplitAcc(t, i + 2, <<>>, Append(acc, line \o <<CR, LF>>))
         ELSE IF t[i] \in {CR, LF}
              THEN SplitAcc(t, i + 1, <<>>, Append(acc, Append(line, t[i])))
              ELSE SplitAcc(t, i + 1, Append(line, t[i]), acc)

RECURSIVE SplitAccNoEnds(_, _, _, _)
SplitAccNoEnds(t, i, line, acc) ==
    IF i > Len(t)
    THEN IF line = <<>> THEN acc ELSE Append(acc, line)
    ELSE IF t[i] = CR /\ i < Len(t) /\ t[i + 1] = LF
         THEN SplitAccNoEnds(t, i + 2, <<>>, Append(acc, line))
         ELSE IF t[i] \in {CR, LF}
              THEN SplitAccNoEnds(t, i + 1, <<>>, Append(acc, line))
              ELSE SplitAccNoEnds(t, i + 1, Append(line, t[i]), acc)

\* text.splitlines(), the terminators dropped
splitlinesNoKeepends(t) == SplitAccNoEnds(t, 1, <<>>, <<>>)

\* text.splitlines(keepends=True): a line ends after "\n", "\r\n" or "\r"
splitlines(t) == SplitAcc(t, 1, <<>>, <<>>)

RECURSIVE LineLoopCurZero(_, _, _, _, _)
\* the line loop with `cur = 0` where the code has `cur = ln_len`
LineLoopCurZero(lines, i, buf, cur, acc) ==
    IF i > Len(lines)
    THEN IF buf # <<>> THEN Append(acc, Join(buf)) ELSE acc
    ELSE LET ln == lines[i]
             ln_len == Len(ln)
         IN  IF cur + ln_len > MAX_TG
             THEN LineLoopCurZero(lines, i + 1, <<ln>>, 0, Append(acc, Join(buf)))
             ELSE LineLoopCurZero(lines, i + 1, Append(buf, ln), cur + ln_len, acc)

RECURSIVE LineLoop(_, _, _, _, _)
\* the for loop over lines, and the `if buf:` after it
LineLoop(lines, i, buf, cur, acc) ==
    IF i > Len(lines)
    THEN IF buf # <<>> THEN Append(acc, Join(buf)) ELSE acc
    ELSE LET ln == lines[i]
             ln_len == Len(ln)
         IN  IF cur + ln_len > MAX_TG
             THEN LineLoop(lines, i + 1, <<ln>>, ln_len, Append(acc, Join(buf)))
             ELSE LineLoop(lines, i + 1, Append(buf, ln), cur + ln_len, acc)

MakeChunks(t) == LineLoop(splitlines(t), 1, <<>>, 0, <<>>)

RECURSIVE LStrip(_)
LStrip(s) == IF s # <<>> /\ Head(s) \in Whitespace THEN LStrip(Tail(s)) ELSE s

RECURSIVE RStrip(_)
RStrip(s) ==
    IF s # <<>> /\ s[Len(s)] \in Whitespace
    THEN RStrip(SubSeq(s, 1, Len(s) - 1))
    ELSE s

\* str.strip()
strip(s) == RStrip(LStrip(s))

\* str.encode() on the model's (ASCII) characters
Ord(c) ==
    CASE c = "a" -> 97
      [] c = " " -> 32
      [] c = LF -> 10
      [] c = CR -> 13

encode(t) == [i \in 1..Len(t) |-> Ord(t[i])]

\* update.message.reply_text(t, parse_mode=MARKDOWN)
reply_text(t) == [kind |-> "text", body |-> t]
\* update.message.reply_document(BytesIO(b) named output.txt, caption=...)
reply_document(b) == [kind |-> "document", body |-> b]

\* a line longer than MAX_TG
LongLine == Rep("a", MAX_TG) \o <<LF>>
LineShapes == {<<LF>>, <<"a", LF>>, <<" ", "a", CR, LF>>, LongLine}
\* what may follow the last terminated line
Tails == {<<>>, <<"a">>, <<" ">>}

RECURSIVE LineSeqs(_)
LineSeqs(n) ==
    IF n = 0
    THEN {<<>>}
    ELSE LET shorter == LineSeqs(n - 1)
         IN  shorter \cup {Append(ls, l) : ls \in {x \in shorter : Len(x) = n - 1},
                                           l \in LineShapes}

TextSet == {Join(ls) \o tl : ls \in LineSeqs(MaxLines), tl \in Tails}

SegInit ==
    /\ spc = "start"
    /\ text \in TextSet
    /\ chunks = <<>>
    /\ idx = 0
    /\ sent = <<>>

SegIdle ==
    /\ spc = "idle"
    /\ text = <<>>
    /\ chunks = <<>>
    /\ idx = 0
    /\ sent = <<>>

\* bot.py:125-127: the text fits one message
SendShort ==
    /\ spc = "start"
    /\ Len(text) <= MAX_TG
    /\ sent' = Append(sent, reply_text(text))
    /\ spc' = "done"
    /\ UNCHANGED <<text, chunks, idx>>

\* SendSplit with `len(chunks) >= 6` as the test
SendSplitOffByOne ==
    /\ spc = "start"
    /\ Len(text) > MAX_TG
    /\ chunks' = MakeChunks(text)
    /\ IF Len(chunks') >= MAX_CHUNKS
       THEN /\ sent' = Append(sent, reply_document(encode(text)))
            /\ spc' = "done"
            /\ idx' = idx
       ELSE /\ sent' = sent
            /\ spc' = "sending"
            /\ idx' = 1
    /\ UNCHANGED text

\* bot.py:129-152: the line loop, then the document when there are too many chunks
SendSplit ==
    /\ spc = "start"
    /\ Len(text) > MAX_TG
    /\ chunks' = MakeChunks(text)
    /\ IF Len(chunks') > MAX_CHUNKS
       THEN /\ sent' = Append(sent, reply_document(encode(text)))
            /\ spc' = "done"
            /\ idx' = idx
       ELSE /\ sent' = sent
            /\ spc' = "sending"
            /\ idx' = 1
    /\ UNCHANGED text

\* bot.py:154-156: one iteration of `for c in chunks`
SendChunk ==
    /\ spc = "sending"
    /\ idx <= Len(chunks)
    /\ sent' = Append(sent, reply_text(strip(chunks[idx])))
    /\ idx' = idx + 1
    /\ spc' = IF idx = Len(chunks) THEN "done" ELSE "sending"
    /\ UNCHANGED <<text, chunks>>

----------------------------------------------------------------------------
(* format_block and the byte/str conversions of the handlers *)

\* bot.py:48, the default of MAX_BYTES
MAX_BYTES == 800000

\* a byte that is no valid UTF-8: bytes.decode(errors="ignore") drops it
BadByte == "\\xff"
IsDecodable(b) == b # BadByte
\* bytes.decode(errors="ignore")
decode(b) == SelectSeq(b, IsDecodable)

NoOutput == <<"(no output)">>
\* the triple backquote that opens and closes a block
Fence == "[fence]"

\* bot.py:85-88; a text is the sequence of its characters, a fixed literal
\* (a title, a fence, a message) being one element
format_block(title, content) ==
    LET stripped == strip(content)
        body == IF stripped = <<>> THEN NoOutput ELSE stripped
    IN  <<"*">> \o title \o <<"*", LF, Fence, LF>> \o body \o <<LF, Fence>>

\* sub occurs in s as a contiguous run
Contains(s, sub) ==
    \E i \in 0..(Len(s) - Len(sub)) : SubSeq(s, i + 1, i + Len(sub)) = sub

----------------------------------------------------------------------------
(* run_cmd, bot.py:98-115, and the child processes *)

\* what a child may write before it exits, and its exit codes
OutSet == {<<>>, <<"a", BadByte, LF>>}
ErrSet == {<<>>, <<"e", LF>>}
ExitCodes == {0, 1}

\* the executable and the block title of each step of cmd_all, bot.py:359-373
AllExe == <<"subfinder", "nmap", "dig", "whois">>
AllTitle == <<"subfinder", "nmap (top 1000)", "dig ANY", "whois">>
Exe(op, n) ==
    CASE op = "all" -> AllExe[n]
      [] op = "subdomains" -> "subfinder"

\* what create_subprocess_exec may do
LaunchOutcomes == {"spawned", "notfound", "oserror"}

TimedOutMsg == <<"Command timed out", LF>>
NotFoundMsg(exe) == <<"Command not found: ", exe, LF>>
ExecErrorMsg == <<"Execution error: ", "e", LF>>

\* the children of the run_cmd call in progress
CallNo == Len(results) + 1
Mine(i) == procs[i].call = CallNo
Alive(st) == st \in {"running", "signalled"}

Return(r) ==
    /\ ret' = r
    /\ results' = Append(results, r)
    /\ rcpc' = "returned"

\* RunLaunch without the `except FileNotFoundError` clause: a missing
\* executable falls to `except Exception`
RunLaunchNoNotFound ==
    /\ rpc = "step"
    /\ rcpc = "launch"
    /\ \E outcome \in LaunchOutcomes :
           /\ env' = Append(env, outcome)
           /\ IF outcome = "spawned"
              THEN /\ procs' = Append(procs, [call |-> CallNo, st |-> "running"])
                   /\ rcpc' = "await"
                   /\ UNCHANGED <<ret, results>>
              ELSE /\ Return([rc |-> 1, out |-> <<>>, err |-> ExecErrorMsg])
                   /\ UNCHANGED procs
    /\ UNCHANGED <<req, rpc, step, delivered>>

\* bot.py:101-105 with the handlers of 112-115: create_subprocess_exec either
\* spawns the child or raises (FileNotFoundError, or another exception)
RunLaunch ==
    /\ rpc = "step"
    /\ rcpc = "launch"
    /\ \E outcome \in LaunchOutcomes :
           /\ env' = Append(env, outcome)
           /\ IF outcome = "spawned"
              THEN /\ procs' = Append(procs, [call |-> CallNo, st |-> "running"])
                   /\ rcpc' = "await"
                   /\ UNCHANGED <<ret, results>>
              ELSE IF outcome = "notfound"
              THEN /\ Return([rc |-> 127, out |-> <<>>,
                              err |-> NotFoundMsg(Exe(req.op, step))])
                   /\ UNCHANGED procs
              ELSE /\ Return([rc |-> 1, out |-> <<>>, err |-> ExecErrorMsg])
                   /\ UNCHANGED procs
    /\ UNCHANGED <<req, rpc, step, delivered>>

\* the operating system: a running child exits by itself, a killed one dies
ChildExit ==
    \E i \in DOMAIN procs :
        /\ Alive(procs[i].st)
        /\ procs' = [procs EXCEPT ![i].st = "zombie"]
        /\ UNCHANGED <<req, rpc, step, rcpc, ret, results, env, delivered>>

\* the event loop's child watcher reaps a dead child
ReapChild ==
    \E i \in DOMAIN procs :
        /\ procs[i].st = "zombie"
        /\ procs' = [procs EXCEPT ![i].st = "reaped"]
        /\ UNCHANGED <<req, rpc, step, rcpc, ret, results, env, delivered>>

\* bot.py:107 and 111: communicate() returns once the child has exited and
\* has been reaped
RunComplete ==
    /\ rpc = "step"
    /\ rcpc = "await"
    /\ \E i \in DOMAIN procs : Mine(i) /\ procs[i].st = "reaped"
    /\ \E code \in ExitCodes, o \in OutSet, e \in ErrSet :
           Return([rc |-> code, out |-> o, err |-> e])
    /\ UNCHANGED <<req, rpc, step, procs, env, delivered>>

\* bot.py:108-110: wait_for times out, proc.kill() sends SIGKILL and run_cmd
\* returns at once; a child that is already dead is left as it is
RunTimeout ==
    /\ rpc = "step"
    /\ rcpc = "await"
    /\ \E i \in DOMAIN procs :
           /\ Mine(i)
           /\ procs[i].st \in {"running", "zombie"}
           /\ procs' = [procs EXCEPT ![i].st =
                            IF @ = "running" THEN "signalled" ELSE @]
    /\ Return([rc |-> 124, out |-> <<>>, err |-> TimedOutMsg])
    /\ UNCHANGED <<req, rpc, step, env, delivered>>

----------------------------------------------------------------------------
(* The handlers: cmd_all and cmd_subdomains *)

Ops == {"all", "subdomains"}
\* context.args: missing, an argument validate_domain rejects, a valid domain
Args == {"none", "bad", "ok"}
ReqSet == [op : Ops, auth : BOOLEAN, arg : Args]

notice(t) == [kind |-> "notice", text |-> <<t>>, calls |-> {}]
\* send_long_markdown(update, t), reporting the run_cmd calls cs
plan(t, cs) == [kind |-> "plan", text |-> t, calls |-> cs]
document(b, cs) == [kind |-> "document", text |-> b, calls |-> cs]

Usage(op) == "Usage: /" \o op
Announce(op) ==
    CASE op = "all" -> "Quick recon on"
      [] op = "subdomains" -> "Subdomain enumeration:"

BotInit ==
    /\ req \in ReqSet
    /\ rpc = "start"
    /\ step = 0
    /\ rcpc = "none"
    /\ ret = [rc |-> 0, out |-> <<>>, err |-> <<>>]
    /\ procs = <<>>
    /\ results = <<>>
    /\ env = <<>>
    /\ delivered = <<>>

BotIdle ==
    /\ req = [op |-> "all", auth |-> FALSE, arg |-> "none"]
    /\ rpc = "idle"
    /\ step = 0
    /\ rcpc = "none"
    /\ ret = [rc |-> 0, out |-> <<>>, err |-> <<>>]
    /\ procs = <<>>
    /\ results = <<>>
    /\ env = <<>>
    /\ delivered = <<>>

\* the guards every handler starts with (ensure_auth, context.args,
\* validate_domain), then the announcement and the first run_cmd call
CmdStart ==
    /\ rpc = "start"
    /\ IF ~req.auth
       THEN /\ delivered' = Append(delivered, notice("Not authorized."))
            /\ rpc' = "done"
            /\ UNCHANGED <<step, rcpc>>
       ELSE IF req.arg = "none"
       THEN /\ delivered' = Append(delivered, notice(Usage(req.op)))
            /\ rpc' = "done"
            /\ UNCHANGED <<step, rcpc>>
       ELSE IF req.arg = "bad"
       THEN /\ delivered' = Append(delivered, notice("Invalid domain."))
            /\ rpc' = "done"
            /\ UNCHANGED <<step, rcpc>>
       ELSE /\ delivered' = Append(delivered, notice(Announce(req.op)))
            /\ rpc' = "step"
            /\ step' = 1
            /\ rcpc' = "launch"
    /\ UNCHANGED <<req, ret, procs, results, env>>

\* AllStep returning from the handler when a step's exit code is not 0
AllStepStopOnError ==
    /\ rpc = "step"
    /\ req.op = "all"
    /\ rcpc = "returned"
    /\ delivered' = Append(delivered,
           plan(format_block(<<AllTitle[step]>>,
                             decode(_ellipsize(ret.out, MAX_BYTES))),
                {Len(results)}))
    /\ IF step < Len(AllExe) /\ ret.rc = 0
       THEN /\ step' = step + 1
            /\ rcpc' = "launch"
            /\ rpc' = rpc
       ELSE /\ rpc' = "done"
            /\ rcpc' = "none"
            /\ step' = step
    /\ UNCHANGED <<req, ret, procs, results, env>>

\* cmd_all, bot.py:360-373: a step's run_cmd has returned; its block is sent,
\* then the next step's run_cmd is called
AllStep ==
    /\ rpc = "step"
    /\ req.op = "all"
    /\ rcpc = "returned"
    /\ delivered' = Append(delivered,
           plan(format_block(<<AllTitle[step]>>,
                             decode(_ellipsize(ret.out, MAX_BYTES))),
                {Len(results)}))
    /\ IF step < Len(AllExe)
       THEN /\ step' = step + 1
            /\ rcpc' = "launch"
            /\ rpc' = rpc
       ELSE /\ rpc' = "done"
            /\ rcpc' = "none"
            /\ step' = step
    /\ UNCHANGED <<req, ret, procs, results, env>>

\* cmd_subdomains, bot.py:212-222
SubdomainsStep ==
    /\ rpc = "step"
    /\ req.op = "subdomains"
    /\ rcpc = "returned"
    /\ LET block == format_block(<<"subfinder">>,
                                 decode(_ellipsize(ret.out, MAX_BYTES)))
           txt == IF ret.err # <<>>
                  THEN block \o <<LF>> \o format_block(<<"stderr">>, decode(ret.err))
                  ELSE block
           first == Append(delivered, plan(txt, {Len(results)}))
       IN  delivered' =
               IF ret.out # <<>> /\ strip(ret.out) # <<>>
               THEN Append(first, document(ret.out, {Len(results)}))
               ELSE first
    /\ rpc' = "done"
    /\ rcpc' = "none"
    /\ UNCHANGED <<req, step, ret, procs, results, env>>

----------------------------------------------------------------------------
(* Specifications *)

LimitInit == LimInit /\ SegIdle /\ BotIdle
LimNext == Ellipsize /\ UNCHANGED <<segvars, botvars>>
SpecLimit == LimitInit /\ [][LimNext]_vars

SegmentInit == SegInit /\ LimIdle /\ BotIdle
SegNext ==
    \/ SendShort /\ UNCHANGED <<limvars, botvars>>
    \/ SendSplit /\ UNCHANGED <<limvars, botvars>>
    \/ SendChunk /\ UNCHANGED <<limvars, botvars>>
SpecSeg == SegmentInit /\ [][SegNext]_vars

Init == BotInit /\ LimIdle /\ SegIdle
Next ==
    \/ CmdStart /\ UNCHANGED <<limvars, segvars>>
    \/ RunLaunch /\ UNCHANGED <<limvars, segvars>>
    \/ RunComplete /\ UNCHANGED <<limvars, segvars>>
    \/ RunTimeout /\ UNCHANGED <<limvars, segvars>>
    \/ ChildExit /\ UNCHANGED <<limvars, segvars>>
    \/ ReapChild /\ UNCHANGED <<limvars, segvars>>
    \/ AllStep /\ UNCHANGED <<limvars, segvars>>
    \/ SubdomainsStep /\ UNCHANGED <<limvars, segvars>>
Spec == Init /\ [][Next]_vars

----------------------------------------------------------------------------
(* Claims about _ellipsize (checked under SpecLimit) *)

\* C1: whenever len(data) > limit, _ellipsize returns at most `limit` bytes
\* and the result ends with the truncation marker.
C1_TruncatedWithinLimit ==
    (lpc = "done" /\ Len(data) > limit) =>
        /\ Len(result) <= limit
        /\ EndsWith(result, suffix)

----------------------------------------------------------------------------
(* Claims about send_long_markdown (checked under SpecSeg) *)

\* the line loop has run on a text longer than MAX_TG
Segmented == spc \in {"sending", "done"} /\ Len(text) > MAX_TG
\* the chunks are sent as messages (no document)
MultiChunk == Segmented /\ Len(chunks) <= MAX_CHUNKS

\* C5: every chunk has length at most MAX_TG or is exactly one line, and the
\* chunks are made of whole lines: their lines, in order, are the text's lines.
C5_ChunksAreWholeLines ==
    Segmented =>
        /\ \A i \in 1..Len(chunks) :
               \/ Len(chunks[i]) <= MAX_TG
               \/ Len(splitlines(chunks[i])) = 1
        /\ Join([i \in 1..Len(chunks) |-> splitlines(chunks[i])]) = splitlines(text)

\* C5 witness: a sent plan with a chunk that is one over-long line and a chunk
\* of several lines.
C5_Witness ==
    /\ MultiChunk
    /\ spc = "done"
    /\ \E i \in 1..Len(chunks) : Len(chunks[i]) > MAX_TG
    /\ \E j \in 1..Len(chunks) : Len(splitlines(chunks[j])) >= 2

\* p is c with only leading and trailing whitespace removed
TrimOf(c, p) ==
    \E a \in 0..Len(c), b \in 0..Len(c) :
        /\ a <= b
        /\ p = SubSeq(c, a + 1, b)
        /\ \A k \in 1..a : c[k] \in Whitespace
        /\ \A k \in (b + 1)..Len(c) : c[k] \in Whitespace

\* C6: in a multi-chunk plan the chunks concatenated in order are the text,
\* and every payload sent is its chunk with only leading/trailing whitespace
\* removed; once the plan is sent there is one payload per chunk.
C6_ChunksReproduceText ==
    MultiChunk =>
        /\ Join(chunks) = text
        /\ Len(sent) <= Len(chunks)
        /\ \A i \in 1..Len(sent) :
               sent[i].kind = "text" /\ TrimOf(chunks[i], sent[i].body)
        /\ spc = "done" => Len(sent) = Len(chunks)

\* C6 witness: a sent plan of several chunks in which trimming removed
\* something from a chunk and left something.
C6_Witness ==
    /\ MultiChunk
    /\ spc = "done"
    /\ Len(chunks) >= 2
    /\ \E i \in 1..Len(sent) : sent[i].body # chunks[i] /\ sent[i].body # <<>>

\* C7: for a text longer than MAX_TG, more than 6 chunks means exactly one
\* document holding the whole text and no text message; otherwise the chunks
\* go out as text messages, in order, and no document.
C7_AttachmentThreshold ==
    Segmented =>
        IF Len(chunks) > MAX_CHUNKS
        THEN /\ spc = "done"
             /\ sent = <<[kind |-> "document", body |-> encode(text)]>>
        ELSE /\ Len(sent) <= Len(chunks)
             /\ \A i \in 1..Len(sent) :
                    sent[i] = [kind |-> "text", body |-> strip(chunks[i])]
             /\ spc = "done" => Len(sent) = Len(chunks)

\* C7 witness: a text of exactly one chunk more than the threshold, delivered
\* as a document.
C7_Witness ==
    /\ Segmented
    /\ spc = "done"
    /\ Len(chunks) = MAX_CHUNKS + 1
    /\ Len(sent) = 1
    /\ sent[1].kind = "document"

\* C10: in a multi-chunk plan no text payload handed to the channel is empty.
C10_NoEmptyPayload ==
    MultiChunk =>
        \A i \in 1..Len(sent) : sent[i].kind = "text" => sent[i].body # <<>>

----------------------------------------------------------------------------
(* Claims about run_cmd and the handlers (checked under Spec) *)

IsPlan(d) == d.kind = "plan"
Plans == SelectSeq(delivered, IsPlan)
ChildrenOf(k) == {i \in DOMAIN procs : procs[i].call = k}
AliveChildren == {i \in DOMAIN procs : Alive(procs[i].st)}

\* C2: when run_cmd returns after a timeout it returns (124, b"", timeout
\* message) and, at that moment, the child of that call is dead and reaped.
C2_TimeoutReclaimsChild ==
    (rcpc = "returned" /\ ret.rc = 124) =>
        /\ ret.out = <<>>
        /\ ret.err = TimedOutMsg
        /\ \A i \in ChildrenOf(Len(results)) : procs[i].st = "reaped"

\* C3: every delivered plan shows, for each run_cmd call it reports that
\* returned non-empty stderr, a block titled stderr with that stderr text.
C3_StderrReported ==
    \A n \in 1..Len(delivered) :
        IsPlan(delivered[n]) =>
            \A k \in delivered[n].calls :
                results[k].err # <<>> =>
                    Contains(delivered[n].text,
                             format_block(<<"stderr">>, decode(results[k].err)))

\* C4: /all on a valid domain delivers its plans in the order subfinder,
\* nmap, dig ANY, whois, one per run_cmd call whatever that call returned,
\* and exactly four of them once the handler is done.
C4_AllDeliversFourPlans ==
    (req.op = "all" /\ req.auth /\ req.arg = "ok") =>
        /\ Len(Plans) <= Len(AllTitle)
        /\ \A n \in 1..Len(Plans) :
               /\ Plans[n].text[2] = AllTitle[n]
               /\ Plans[n].calls = {n}
        /\ rpc = "done" => Len(Plans) = 4

\* C4 witness: /all is done after a missing subfinder, a timed-out port scan
\* and a dig that exited with 1.
C4_Witness ==
    /\ req.op = "all"
    /\ rpc = "done"
    /\ Len(results) = 4
    /\ results[1].rc = 127
    /\ results[2].rc = 124
    /\ results[3].rc = 1
    /\ Len(Plans) = 4

\* C8: run_cmd never raises; a launch that fails returns at once, with no
\* child: 127, empty stdout and the executable's name in stderr when the
\* executable is missing, a non-zero code, empty stdout and a message
\* otherwise; every call spawns at most one child and returns one result.
C8_LaunchFailureReturns ==
    /\ rcpc # "raised"
    /\ Len(results) <= Len(env)
    /\ Len(env) <= Len(results) + 1
    /\ \A k \in 1..Len(env) :
           /\ Cardinality(ChildrenOf(k)) <= 1
           /\ env[k] # "spawned" =>
                  /\ k <= Len(results)
                  /\ ChildrenOf(k) = {}
                  /\ results[k].out = <<>>
                  /\ results[k].err # <<>>
                  /\ results[k].rc # 0
           /\ env[k] = "notfound" =>
                  /\ results[k].rc = 127
                  /\ Contains(results[k].err, <<Exe(req.op, k)>>)

\* C8 witness: one request saw a missing executable and another launch failure.
C8_Witness ==
    \E j \in 1..Len(results), k \in 1..Len(results) :
        /\ env[j] = "notfound"
        /\ results[j].rc = 127
        /\ env[k] = "oserror"
        /\ results[k].rc = 1

\* within /all, a step's run_cmd is called only after the plans of all the
\* steps before it were handed to the channel
StepsInSequence ==
    (req.op = "all" /\ rcpc \in {"launch", "await", "returned"}) =>
        /\ Len(Plans) = step - 1
        /\ Len(results) \in {step - 1, step}

\* C9: the steps of /all run strictly in sequence, and at no point are two
\* external processes of the request running at once.
C9_OneProcessAtATime ==
    req.op = "all" =>
        /\ StepsInSequence
        /\ Cardinality(AliveChildren) <= 1

====
